---- MODULE Spec2Model ----
(***************************************************************************)
(* finalhandler (src/index.js): the final responder of an HTTP handler     *)
(* chain.  One constructed handler, one request/response pair.  The state  *)
(* is the pair (req, res), the options captured at construction, the       *)
(* listeners registered with on-finished, the queue of callbacks handed to *)
(* defer (setImmediate), and a history of the effects performed.           *)
(*                                                                         *)
(* Strings are sequences of characters (one-character strings; a non-ASCII *)
(* code point is one element named "U+xxxx"), so that concatenation,       *)
(* escaping and UTF-8 encoding are computed, not assumed.                  *)
(***************************************************************************)
EXTENDS Integers, Sequences, FiniteSets, TLC

VARIABLES opts, req, res, listeners, deferred, calls, log

vars == <<opts, req, res, listeners, deferred, calls, log>>

(***************************************************************************)
(* Bounds                                                                  *)
(***************************************************************************)
\* number of times the constructed handler is invoked on the pair
MaxCalls == 2

(***************************************************************************)
(* String constants                                                        *)
(***************************************************************************)
Str_Cannot == <<"C", "a", "n", "n", "o", "t", " ">>
Str_Space == <<" ">>
Str_Newline == <<"\n">>
Str_GET == <<"G", "E", "T">>
Str_HEAD == <<"H", "E", "A", "D">>
Str_undefined == <<"u", "n", "d", "e", "f", "i", "n", "e", "d">>
Str_UrlOrig == <<"/", "o">>
Str_UrlCur == <<"/", "u">>
\* err.stack of the modelled errors: has characters every later conversion touches
Str_Stack == <<"E", "&", "\n", " ", " ", "<", "U+00E9", ">">>
\* String(err) of the modelled errors
Str_ErrString == <<"E", "&">>

TYPE_HTML == <<"t", "e", "x", "t", "/", "h", "t", "m", "l", ";", " ", "c", "h", "a", "r", "s", "e", "t", "=", "u", "t", "f", "-", "8">>
TYPE_TEXT == <<"t", "e", "x", "t", "/", "p", "l", "a", "i", "n", ";", " ", "c", "h", "a", "r", "s", "e", "t", "=", "u", "t", "f", "-", "8">>

HTML_HEAD == <<"<", "!", "d", "o", "c", "t", "y", "p", "e", " ", "h", "t", "m", "l", ">", "\n", "<", "h", "t", "m", "l", " ", "l", "a", "n", "g", "=", "e", "n", ">", "\n", "<", "h", "e", "a", "d", ">", "\n", "<", "m", "e", "t", "a", " ", "c", "h", "a", "r", "s", "e", "t", "=", "u", "t", "f", "-", "8", ">", "\n", "<", "t", "i", "t", "l", "e", ">">>
HTML_MID == <<"<", "/", "t", "i", "t", "l", "e", ">", "\n", "<", "/", "h", "e", "a", "d", ">", "\n", "<", "b", "o", "d", "y", ">", "\n">>
HTML_TAIL == <<"\n", "<", "/", "b", "o", "d", "y", ">", "\n">>

(***************************************************************************)
(* http.STATUS_CODES, restricted to the codes the model can resolve        *)
(***************************************************************************)
STATUS_CODES ==
  [s \in {200, 302, 404, 500, 503} |->
     CASE s = 200 -> <<"O", "K">>
       [] s = 302 -> <<"F", "o", "u", "n", "d">>
       [] s = 404 -> <<"N", "o", "t", " ", "F", "o", "u", "n", "d">>
       [] s = 500 -> <<"I", "n", "t", "e", "r", "n", "a", "l", " ", "S", "e", "r", "v", "e", "r", " ", "E", "r", "r", "o", "r">>
       [] s = 503 -> <<"S", "e", "r", "v", "i", "c", "e", " ", "U", "n", "a", "v", "a", "i", "l", "a", "b", "l", "e">>]

\* http.STATUS_CODES[status] used as a string: a missing key reads undefined
StatusPhrase(status) ==
  IF status \in DOMAIN STATUS_CODES THEN STATUS_CODES[status] ELSE Str_undefined

(***************************************************************************)
(* Values                                                                  *)
(***************************************************************************)
\* the value undefined of a string-valued property (falsy, like '')
Absent == <<>>

\* no error signal: the handler called with a falsy argument
NoErr == [present |-> FALSE, statusCode |-> 0, status |-> 0, stack |-> Absent]

\* the values of err.statusCode and of err.status; 0 is a missing field
StatusFieldVals == {0, 302, 404, 503}

\* the error values a single invocation is examined with
Errors ==
  [present : {TRUE}, statusCode : StatusFieldVals, status : StatusFieldVals,
   stack : {Absent, Str_Stack}]

\* the error values of repeated invocations: two that differ in detail only,
\* and one with both status fields
RepeatedErrors ==
  {[present |-> TRUE, statusCode |-> 0, status |-> 0, stack |-> Absent],
   [present |-> TRUE, statusCode |-> 0, status |-> 0, stack |-> Str_Stack],
   [present |-> TRUE, statusCode |-> 404, status |-> 503, stack |-> Str_Stack]}

\* String(err)
String(err) == Str_ErrString

\* res.statusCode as a handler further up the chain left it
InitialStatusCodes == {200, 503}

\* the same for an invocation examined alone: 0 is a falsy res.statusCode
ExaminedStatusCodes == InitialStatusCodes \cup {0}

\* what accepts(req).types('html', 'text') returns for the request's Accept header
AcceptResults == {"html", "text", "false"}

(***************************************************************************)
(* escape-html, String.prototype.replace, new Buffer(s, 'utf8')            *)
(***************************************************************************)
escapeChar(c) ==
  CASE c = "&" -> <<"&", "a", "m", "p", ";">>
    [] c = "\"" -> <<"&", "q", "u", "o", "t", ";">>
    [] c = "'" -> <<"&", "#", "3", "9", ";">>
    [] c = "<" -> <<"&", "l", "t", ";">>
    [] c = ">" -> <<"&", "g", "t", ";">>
    [] OTHER -> <<c>>

RECURSIVE escapeHtml(_)
escapeHtml(s) ==
  IF s = <<>> THEN <<>> ELSE escapeChar(Head(s)) \o escapeHtml(Tail(s))

\* .replace(/\n/g, '<br>')
RECURSIVE replaceNewlines(_)
replaceNewlines(s) ==
  IF s = <<>> THEN <<>>
  ELSE (IF Head(s) = "\n" THEN <<"<", "b", "r", ">">> ELSE <<Head(s)>>)
       \o replaceNewlines(Tail(s))

\* .replace(/  /g, ' &nbsp;'): matches are taken left to right and do not overlap
RECURSIVE replaceDoubleSpaces(_)
replaceDoubleSpaces(s) ==
  IF s = <<>> THEN <<>>
  ELSE IF Len(s) >= 2 /\ s[1] = " " /\ s[2] = " "
       THEN <<" ", "&", "n", "b", "s", "p", ";">> \o replaceDoubleSpaces(Tail(Tail(s)))
       ELSE <<Head(s)>> \o replaceDoubleSpaces(Tail(s))

\* the UTF-8 bytes of one character: an ASCII character is one byte,
\* U+00E9 is the two bytes C3 A9
utf8Char(c) == IF c = "U+00E9" THEN <<"0xC3", "0xA9">> ELSE <<c>>

\* new Buffer(s, 'utf8'): the bytes of the characters, in order
RECURSIVE utf8(_)
utf8(s) ==
  IF s = <<>> THEN <<>>
  ELSE IF Len(s) = 1 THEN utf8Char(s[1])
  ELSE LET h == Len(s) \div 2
       IN utf8(SubSeq(s, 1, h)) \o utf8(SubSeq(s, h + 1, Len(s)))

(***************************************************************************)
(* Body renderers                                                          *)
(***************************************************************************)
constructHtmlBody(status, message) ==
  LET msg == replaceDoubleSpaces(replaceNewlines(escapeHtml(message)))
      html == HTML_HEAD \o escapeHtml(StatusPhrase(status)) \o HTML_MID
              \o msg \o HTML_TAIL
  IN [bytes |-> utf8(html), type |-> TYPE_HTML]

constructTextBody(status, message) ==
  [bytes |-> utf8(message \o Str_Newline), type |-> TYPE_TEXT]

\* the switch without its html case
constructBody_alwaysText(type, status, message) ==
  constructTextBody(status, message)

\* the switch on the negotiated type
constructBody(type, status, message) ==
  IF type = "html" THEN constructHtmlBody(status, message)
  ELSE constructTextBody(status, message)

(***************************************************************************)
(* Status / message resolution                                             *)
(***************************************************************************)
\* resolveStatus without the default of lines 83-85
resolveStatus_withoutDefault(err, statusCode) ==
  IF err.present
  THEN LET s0 == statusCode
           s1 == IF err.statusCode # 0 THEN err.statusCode ELSE s0
       IN IF err.status # 0 THEN err.status ELSE s1
  ELSE 404

\* resolveStatus that starts from no status instead of res.statusCode
resolveStatus_ignoresCurrent(err, statusCode) ==
  IF err.present
  THEN LET s1 == IF err.statusCode # 0 THEN err.statusCode ELSE 0
           s2 == IF err.status # 0 THEN err.status ELSE s1
       IN IF s2 = 0 \/ s2 < 400 THEN 500 ELSE s2
  ELSE 404

\* resolveStatus with the two fields tested in the other order
resolveStatus_statusCodeLast(err, statusCode) ==
  IF err.present
  THEN LET s0 == statusCode
           s1 == IF err.status # 0 THEN err.status ELSE s0
           s2 == IF err.statusCode # 0 THEN err.statusCode ELSE s1
       IN IF s2 = 0 \/ s2 < 400 THEN 500 ELSE s2
  ELSE 404

\* lines 62-85 and 92: the status of the response
resolveStatus(err, statusCode) ==
  IF err.present
  THEN LET s0 == statusCode
           s1 == IF err.statusCode # 0 THEN err.statusCode ELSE s0
           s2 == IF err.status # 0 THEN err.status ELSE s1
       IN IF s2 = 0 \/ s2 < 400 THEN 500 ELSE s2
  ELSE 404

\* resolveMessage that reads req.url only
resolveMessage_urlOnly(err, status, stacktrace, rq) ==
  IF err.present
  THEN IF stacktrace
       THEN (IF err.stack # Absent THEN err.stack ELSE String(err))
       ELSE StatusPhrase(status)
  ELSE Str_Cannot \o rq.method \o Str_Space \o rq.url

\* resolveMessage that ignores the stacktrace option
resolveMessage_alwaysDetail(err, status, stacktrace, rq) ==
  IF err.present
  THEN (IF err.stack # Absent THEN err.stack ELSE String(err))
  ELSE Str_Cannot \o rq.method \o Str_Space
       \o (IF rq.originalUrl # Absent THEN rq.originalUrl ELSE rq.url)

\* resolveMessage without the String(err) fallback
resolveMessage_stackOnly(err, status, stacktrace, rq) ==
  IF err.present
  THEN IF stacktrace
       THEN (IF err.stack # Absent THEN err.stack ELSE Str_undefined)
       ELSE StatusPhrase(status)
  ELSE Str_Cannot \o rq.method \o Str_Space
       \o (IF rq.originalUrl # Absent THEN rq.originalUrl ELSE rq.url)

\* lines 87-94: the message of the body
resolveMessage(err, status, stacktrace, rq) ==
  IF err.present
  THEN IF stacktrace
       THEN (IF err.stack # Absent THEN err.stack ELSE String(err))
       ELSE StatusPhrase(status)
  ELSE Str_Cannot \o rq.method \o Str_Space
       \o (IF rq.originalUrl # Absent THEN rq.originalUrl ELSE rq.url)

(***************************************************************************)
(* History of effects                                                      *)
(***************************************************************************)
\* one effect of invocation id (0: none), with req finished / res._header
\* as they were when it happened
Event(ev, id, rq, rs) ==
  [ev |-> ev, id |-> id, fin |-> rq.finished, hdr |-> rs._header]

(***************************************************************************)
(* send(req, res, status, body)                                            *)
(***************************************************************************)
\* isFinished(req) of on-finished
isFinished(rq) == rq.finished

\* write without the HEAD test of lines 201-204
write_headSendsBody(rq, rs, id, status, body) ==
  LET r1 == [rs EXCEPT !.statusCode = status]
  IN IF rs._header
     THEN [res |-> r1, threw |-> TRUE,
           evs |-> <<Event("write", id, rq, rs), Event("throw", id, rq, rs)>>]
     ELSE [res |-> [r1 EXCEPT
                      !.headers = [xcto |-> "nosniff", ctype |-> body.type,
                                   clen |-> Len(body.bytes)],
                      !._header = TRUE,
                      !.ended = TRUE,
                      !.body = body.bytes],
           threw |-> FALSE,
           evs |-> <<Event("write", id, rq, rs)>>]

\* write(): lines 191-207.  res.setHeader throws once the headers are sent,
\* after the assignment of res.statusCode
write(rq, rs, id, status, body) ==
  LET r1 == [rs EXCEPT !.statusCode = status]
  IN IF rs._header
     THEN [res |-> r1, threw |-> TRUE,
           evs |-> <<Event("write", id, rq, rs), Event("throw", id, rq, rs)>>]
     ELSE [res |-> [r1 EXCEPT
                      !.headers = [xcto |-> "nosniff", ctype |-> body.type,
                                   clen |-> Len(body.bytes)],
                      !._header = TRUE,
                      !.ended = TRUE,
                      !.body = IF rq.method = Str_HEAD THEN <<>> ELSE body.bytes],
           threw |-> FALSE,
           evs |-> <<Event("write", id, rq, rs)>>]

\* unpipe(req): every destination is removed and the stream stops flowing
unpipe(rq) == [rq EXCEPT !.piped = FALSE, !.flowing = FALSE]

\* req.resume()
resume(rq) == [rq EXCEPT !.flowing = TRUE]

\* send without the isFinished test: the response is written at once
send_writesAtOnce(rq, rs, ls, id, status, body) ==
  LET w == write(rq, rs, id, status, body)
  IN [req |-> rq, res |-> w.res, listeners |-> ls, evs |-> w.evs]

\* send without req.resume()
send_withoutResume(rq, rs, ls, id, status, body) ==
  IF isFinished(rq)
  THEN LET w == write(rq, rs, id, status, body)
       IN [req |-> rq, res |-> w.res, listeners |-> ls, evs |-> w.evs]
  ELSE LET rq1 == unpipe(rq)
           ls1 == Append(ls, [id |-> id, status |-> status, body |-> body])
       IN [req |-> rq1, res |-> rs, listeners |-> ls1,
           evs |-> <<Event("unpipe", id, rq, rs), Event("onFinished", id, rq1, rs)>>]

\* send that resumes the request before it detaches the consumers
send_resumesFirst(rq, rs, ls, id, status, body) ==
  IF isFinished(rq)
  THEN LET w == write(rq, rs, id, status, body)
       IN [req |-> rq, res |-> w.res, listeners |-> ls, evs |-> w.evs]
  ELSE LET rq1 == resume(rq)
           ls1 == Append(ls, [id |-> id, status |-> status, body |-> body])
           rq2 == unpipe(rq1)
       IN [req |-> rq2, res |-> rs, listeners |-> ls1,
           evs |-> <<Event("resume", id, rq, rs), Event("onFinished", id, rq1, rs),
                     Event("unpipe", id, rq1, rs)>>]

\* send that waits for the finish event even when the request is finished
send_neverInline(rq, rs, ls, id, status, body) ==
  LET rq1 == unpipe(rq)
      ls1 == Append(ls, [id |-> id, status |-> status, body |-> body])
      rq2 == resume(rq1)
  IN [req |-> rq2, res |-> rs, listeners |-> ls1,
      evs |-> <<Event("unpipe", id, rq, rs), Event("onFinished", id, rq1, rs),
                Event("resume", id, rq1, rs)>>]

\* lines 209-219
send(rq, rs, ls, id, status, body) ==
  IF isFinished(rq)
  THEN LET w == write(rq, rs, id, status, body)
       IN [req |-> rq, res |-> w.res, listeners |-> ls, evs |-> w.evs]
  ELSE LET rq1 == unpipe(rq)
           ls1 == Append(ls, [id |-> id, status |-> status, body |-> body])
           rq2 == resume(rq1)
       IN [req |-> rq2, res |-> rs, listeners |-> ls1,
           evs |-> <<Event("unpipe", id, rq, rs), Event("onFinished", id, rq1, rs),
                     Event("resume", id, rq1, rs)>>]

(***************************************************************************)
(* defer(onerror, err, req, res)                                           *)
(***************************************************************************)
\* defer that calls the callback at once instead of queueing it
defer_callsInline(q, id, err, rq, rs) ==
  [deferred |-> q,
   evs |-> <<Event("defer", id, rq, rs), Event("onerror", id, rq, rs)>>]

\* setImmediate: the callback and its arguments are queued; nothing runs now
defer(q, id, err, rq, rs) ==
  [deferred |-> Append(q, [id |-> id, err |-> err]),
   evs |-> <<Event("defer", id, rq, rs)>>]

(***************************************************************************)
(* State after construction: finalhandler(req, res, options)               *)
(***************************************************************************)
InitFrom(statusCodes) ==
  /\ opts \in [onerror : BOOLEAN, stacktrace : BOOLEAN]
  /\ req \in {r \in [method : {Str_GET, Str_HEAD},
                     originalUrl : {Absent, Str_UrlOrig},
                     url : {Str_UrlCur},
                     accept : AcceptResults,
                     finished : BOOLEAN,
                     piped : BOOLEAN,
                     flowing : BOOLEAN,
                     socketDestroyed : {FALSE}] :
                /\ r.flowing = r.piped
                /\ r.finished => ~r.piped}
  /\ res \in [statusCode : statusCodes,
              _header : {FALSE},
              headers : {[xcto |-> "", ctype |-> Absent, clen |-> -1]},
              ended : {FALSE},
              body : {Absent}]
  /\ listeners = <<>>
  /\ deferred = <<>>
  /\ calls = <<>>
  /\ log = <<>>

Init == InitFrom(InitialStatusCodes)

InitOnce == InitFrom(ExaminedStatusCodes)

(***************************************************************************)
(* The returned function (err): lines 58-128                               *)
(***************************************************************************)
\* the handler without the test of line 65
ignoreNotFound_never(err, rs) == FALSE

\* line 65: a 404 on a response that is already in flight is ignored
ignoreNotFound(err, rs) == ~err.present /\ rs._header

\* line 99: the onerror callback is scheduled
scheduleOnerror(err, o) == err.present /\ o.onerror

\* the handler without the test of line 104
cannotRespond_never(rs) == FALSE

\* line 104: the response cannot be written any more
cannotRespond(rs) == rs._header

Handler(err) ==
  /\ Len(calls) < MaxCalls
  /\ LET id == Len(calls) + 1
         enter == Event("enter", id, req, res)
     IN IF ignoreNotFound(err, res)
        THEN \* ignore 404 on in-flight response
             /\ calls' = Append(calls, [err |-> err, hdr |-> res._header,
                                        fin |-> req.finished,
                                        statusCode |-> res.statusCode,
                                        status |-> 0, msg |-> Absent])
             /\ log' = log \o <<enter, Event("return", id, req, res)>>
             /\ UNCHANGED <<opts, req, res, listeners, deferred>>
        ELSE LET status == resolveStatus(err, res.statusCode)
                 msg == resolveMessage(err, status, opts.stacktrace, req)
                 d == IF scheduleOnerror(err, opts)
                      THEN defer(deferred, id, err, req, res)
                      ELSE [deferred |-> deferred, evs |-> <<>>]
                 call == [err |-> err, hdr |-> res._header, fin |-> req.finished,
                          statusCode |-> res.statusCode,
                          status |-> status, msg |-> msg]
             IN /\ calls' = Append(calls, call)
                /\ deferred' = d.deferred
                /\ opts' = opts
                /\ IF cannotRespond(res)
                   THEN \* cannot actually respond
                        /\ req' = [req EXCEPT !.socketDestroyed = TRUE]
                        /\ log' = log \o <<enter>> \o d.evs
                                  \o <<Event("destroy", id, req, res),
                                       Event("return", id, req', res)>>
                        /\ UNCHANGED <<res, listeners>>
                   ELSE LET body == constructBody(req.accept, status, msg)
                            s == send(req, res, listeners, id, status, body)
                        IN /\ req' = s.req
                           /\ res' = s.res
                           /\ listeners' = s.listeners
                           /\ log' = log \o <<enter>> \o d.evs \o s.evs
                                     \o <<Event("return", id, s.req, s.res)>>

\* the handler is called with an error
HandlerError == \E err \in RepeatedErrors : Handler(err)

\* the handler is called with no error
HandlerNotFound == Handler(NoErr)

(***************************************************************************)
(* The environment                                                         *)
(***************************************************************************)
\* on-finished calls the registered listeners in order, once; a listener
\* that throws ends the run
RECURSIVE runListeners(_, _, _)
runListeners(ls, rq, rs) ==
  IF ls = <<>> THEN [res |-> rs, evs |-> <<>>]
  ELSE LET l == Head(ls)
           w == write(rq, rs, l.id, l.status, l.body)
       IN IF w.threw THEN [res |-> w.res, evs |-> w.evs]
          ELSE LET rest == runListeners(Tail(ls), rq, w.res)
               IN [res |-> rest.res, evs |-> w.evs \o rest.evs]

\* the request stream ends (it is being read) or its socket closed: req is
\* finished from now on and on-finished fires
ReqFinish ==
  /\ ~req.finished
  /\ req.flowing \/ req.socketDestroyed
  /\ LET rq == [req EXCEPT !.finished = TRUE, !.flowing = FALSE, !.piped = FALSE]
         r == runListeners(listeners, rq, res)
     IN /\ req' = rq
        /\ res' = r.res
        /\ listeners' = <<>>
        /\ log' = log \o <<Event("finish", 0, rq, res)>> \o r.evs
  /\ UNCHANGED <<opts, deferred, calls>>

\* the event loop reaches the setImmediate phase: the oldest queued callback
\* runs, onerror(err, req, res)
RunDeferred ==
  /\ deferred # <<>>
  /\ log' = Append(log, Event("onerror", Head(deferred).id, req, res))
  /\ deferred' = Tail(deferred)
  /\ UNCHANGED <<opts, req, res, listeners, calls>>

\* another handler of the chain starts a response on res: the headers are sent
OtherSendsHeaders ==
  /\ ~res._header
  /\ res' = [res EXCEPT !._header = TRUE]
  /\ UNCHANGED <<opts, req, listeners, deferred, calls, log>>

Next ==
  \/ HandlerError
  \/ HandlerNotFound
  \/ ReqFinish
  \/ RunDeferred
  \/ OtherSendsHeaders

Spec == Init /\ [][Next]_vars

\* the request stream of a live connection that is being read does end
FairSpec == Spec /\ WF_vars(ReqFinish)

\* a single invocation, with any of the error values or none
HandlerOnce ==
  /\ calls = <<>>
  /\ \E err \in Errors \cup {NoErr} : Handler(err)

NextOnce ==
  \/ HandlerOnce
  \/ ReqFinish
  \/ RunDeferred
  \/ OtherSendsHeaders

SpecOnce == InitOnce /\ [][NextOnce]_vars

FairSpecOnce == SpecOnce /\ WF_vars(ReqFinish)

(***************************************************************************)
(* Properties                                                              *)
(***************************************************************************)
Ids == 1..Len(calls)

\* the positions in the history of the effects ev of invocation id
At(ev, id) == {i \in 1..Len(log) : log[i].ev = ev /\ log[i].id = id}

\* the effects of invocation id, in order
RECURSIVE EffectsFrom(_, _)
EffectsFrom(i, id) ==
  IF i > Len(log) THEN <<>>
  ELSE (IF log[i].id = id THEN <<log[i].ev>> ELSE <<>>) \o EffectsFrom(i + 1, id)

Effects(id) == EffectsFrom(1, id)

\* invocation id reached the finalizer: the headers were not sent when it was called
ReachedSend(id) == ~calls[id].hdr

\* C1: for an invocation that reaches the finalizer, write never executes
\* while the request is not finished, and it executes at most once, whether
\* the request was finished at the call or finished later
C1_WriteOnceAfterFinished ==
  \A id \in Ids :
    ReachedSend(id) =>
      /\ \A i \in At("write", id) : log[i].fin
      /\ Cardinality(At("write", id)) <= 1

\* an invocation on an unfinished request whose write ran once the request finished
C1_Witness ==
  \E id \in Ids :
    /\ ReachedSend(id)
    /\ ~calls[id].fin
    /\ Cardinality(At("write", id)) = 1
    /\ res.ended

\* the request was not finished, and the headers not sent, when id was called
Deferred(id) == id \in Ids /\ ~calls[id].hdr /\ ~calls[id].fin

\* C2 (safety part): an invocation on an unfinished request returns without
\* a write; no write happens while the request is unfinished, and once it is
\* finished exactly one write has occurred
C2_DeferredWriteOnce ==
  \A id \in Ids :
    Deferred(id) =>
      /\ \A i \in At("write", id) : \A r \in At("return", id) : r < i
      /\ ~req.finished => At("write", id) = {}
      /\ req.finished => Cardinality(At("write", id)) = 1

\* C2: the safety part always holds and, the request being read to its end,
\* the deferred write of the invocation eventually happens
C2_DeferredWriteHappens ==
  /\ []C2_DeferredWriteOnce
  /\ Deferred(1) ~> (At("write", 1) # {})

\* a deferred invocation that has returned, then written after the finish
C2_Witness ==
  /\ Deferred(1)
  /\ req.finished
  /\ Effects(1) = <<"enter", "unpipe", "onFinished", "resume", "return", "write">>
  /\ res.ended

\* C3: an invocation with an error on a response whose headers are sent
\* destroys the socket and never writes: no write runs in the call, none is
\* registered for later, and the response is as it was
C3_HeadersSentErrorDestroys ==
  \A id \in Ids :
    (calls[id].hdr /\ calls[id].err.present) =>
      /\ req.socketDestroyed
      /\ Cardinality(At("destroy", id)) = 1
      /\ At("write", id) = {}
      /\ At("onFinished", id) = {}
      /\ \A k \in 1..Len(listeners) : listeners[k].id # id

\* the step of such an invocation changes nothing of the response
C3_ResponseUntouched ==
  [][(Len(calls') > Len(calls) /\ res._header /\ calls'[Len(calls')].err.present)
       => (res' = res /\ listeners' = listeners)]_vars

\* C3: with the headers sent and an error, the socket is destroyed, no write
\* is ever attempted for the invocation, and its step leaves the response as it was
C3_HeadersSentError == []C3_HeadersSentErrorDestroys /\ C3_ResponseUntouched

\* such an invocation, after the request has finished as well
C3_Witness ==
  \E id \in Ids :
    /\ calls[id].hdr /\ calls[id].err.present
    /\ ~calls[id].fin
    /\ req.socketDestroyed
    /\ req.finished

\* C4: an invocation without error on a response whose headers are sent has
\* no effect at all
C4_NoEffects ==
  \A id \in Ids :
    (calls[id].hdr /\ ~calls[id].err.present) => Effects(id) = <<"enter", "return">>

\* the step of such an invocation changes nothing but the history
C4_StateUnchanged ==
  [][(Len(calls') > Len(calls) /\ res._header /\ ~calls'[Len(calls')].err.present)
       => UNCHANGED <<req, res, listeners, deferred, opts>>]_vars

\* C4: with the headers sent and no error the invocation is a no-op: no
\* write, no destroy, no onerror scheduled, no unpipe or resume, and the
\* request, the response and the pending callbacks are unchanged
C4_HeadersSentNoErrorNoop == []C4_NoEffects /\ C4_StateUnchanged

\* such an invocation on an unfinished, piped request
C4_Witness ==
  \E id \in Ids :
    /\ calls[id].hdr /\ ~calls[id].err.present
    /\ ~calls[id].fin
    /\ req.piped
    /\ ~req.socketDestroyed

\* the status an error asks for, 0 when it asks for none: err.status when it
\* has one, else err.statusCode
ExplicitStatus(err) == IF err.status # 0 THEN err.status ELSE err.statusCode

\* a status below 400 (or none) becomes 500
OrServerError(s) == IF s = 0 \/ s < 400 THEN 500 ELSE s

\* the response carries the status invocation id resolved, once id has written
WroteStatus(id) == At("write", id) # {} => res.statusCode = calls[id].status

\* C5 as stated: an explicit status >= 400 is the resolved status; below 400,
\* absent or zero, the resolved status is 500 whatever res.statusCode is
C5_Original ==
  \A id \in Ids :
    calls[id].err.present =>
      LET e == ExplicitStatus(calls[id].err)
      IN calls[id].status = (IF e >= 400 THEN e ELSE 500)

\* C5 amended: an explicit status >= 400 is the resolved status; one below
\* 400 resolves to 500; with no explicit status the resolved status is
\* res.statusCode when that is >= 400, and 500 otherwise
C5_ExplicitStatusOrCurrent ==
  \A id \in Ids :
    calls[id].err.present =>
      LET e == ExplicitStatus(calls[id].err)
      IN /\ e >= 400 => calls[id].status = e
         /\ (e # 0 /\ e < 400) => calls[id].status = 500
         /\ e = 0 => calls[id].status =
                       (IF calls[id].statusCode >= 400 THEN calls[id].statusCode ELSE 500)
         /\ WroteStatus(id)

\* an error without status fields on a response whose status is 503, written as 503
C5_Witness ==
  \E id \in Ids :
    /\ calls[id].err.present
    /\ ExplicitStatus(calls[id].err) = 0
    /\ calls[id].statusCode = 503
    /\ calls[id].status = 503
    /\ At("write", id) # {}
    /\ res.ended

\* C6 as stated: with err.statusCode present, the status is that of
\* err.statusCode, whatever err.status is
C6_Original ==
  \A id \in Ids :
    (calls[id].err.present /\ calls[id].err.statusCode # 0) =>
      calls[id].status = OrServerError(calls[id].err.statusCode)

\* C6 amended: err.status, read second, takes priority: with err.status
\* present the status is that of err.status whatever err.statusCode is, and
\* err.statusCode counts only when err.status is absent or zero
C6_StatusOverridesStatusCode ==
  \A id \in Ids :
    calls[id].err.present =>
      /\ calls[id].err.status # 0 =>
           calls[id].status = OrServerError(calls[id].err.status)
      /\ (calls[id].err.status = 0 /\ calls[id].err.statusCode # 0) =>
           calls[id].status = OrServerError(calls[id].err.statusCode)
      /\ WroteStatus(id)

\* an error with two different status fields, both >= 400, written with err.status
C6_Witness ==
  \E id \in Ids :
    /\ calls[id].err.present
    /\ calls[id].err.statusCode = 404
    /\ calls[id].err.status = 503
    /\ calls[id].status = 503
    /\ At("write", id) # {}
    /\ res.ended

\* the onerror callbacks of invocation id still queued
Queued(id) == {k \in 1..Len(deferred) : deferred[k].id = id}

\* C7: onerror is scheduled once by every invocation with an error and a
\* configured callback (also when the headers are sent), with that error, and
\* by no other invocation; it runs at most once, after the invocation returned
C7_OnerrorDeferredOnce ==
  \A id \in Ids :
    /\ Cardinality(At("defer", id)) =
         (IF calls[id].err.present /\ opts.onerror THEN 1 ELSE 0)
    /\ Cardinality(At("onerror", id)) + Cardinality(Queued(id)) =
         Cardinality(At("defer", id))
    /\ \A k \in Queued(id) : deferred[k].err = calls[id].err
    /\ \A i \in At("onerror", id) : \E r \in At("return", id) : r < i

\* the callback of an invocation that found the headers sent has run, after
\* the socket was destroyed and the call returned
C7_Witness ==
  \E id \in Ids :
    /\ calls[id].hdr /\ calls[id].err.present
    /\ opts.onerror
    /\ Effects(id) = <<"enter", "defer", "destroy", "return", "onerror">>
    /\ \E j \in Ids : ~calls[j].err.present /\ ~calls[j].hdr

\* C8: without error and with the headers not sent, the status is 404
\* whatever res.statusCode was, and the message is "Cannot " + method + " " +
\* req.originalUrl, or req.url when there is no originalUrl
C8_NotFound ==
  \A id \in Ids :
    (~calls[id].err.present /\ ~calls[id].hdr) =>
      /\ calls[id].status = 404
      /\ calls[id].msg =
           Str_Cannot \o req.method \o Str_Space
           \o (IF req.originalUrl = Absent THEN req.url ELSE req.originalUrl)
      /\ At("write", id) # {} => res.statusCode = 404
      /\ \A k \in 1..Len(listeners) :
           listeners[k].id = id => listeners[k].status = 404

\* a request with an originalUrl, on a response whose status was 503, answered 404
C8_Witness ==
  \E id \in Ids :
    /\ ~calls[id].err.present /\ ~calls[id].hdr
    /\ calls[id].statusCode = 503
    /\ req.originalUrl = Str_UrlOrig
    /\ calls[id].msg = Str_Cannot \o req.method \o Str_Space \o Str_UrlOrig
    /\ At("write", id) # {}
    /\ res.ended /\ res.statusCode = 404

\* a is a contiguous part of b
IsInfix(a, b) ==
  \E i \in 0..(Len(b) - Len(a)) : SubSeq(b, i + 1, i + Len(a)) = a

\* the detail text of an error: its stack, or its string form
Detail(err) == IF err.stack = Absent THEN Str_ErrString ELSE err.stack

\* the registered writes of invocations with an error
ErrorListeners == {k \in 1..Len(listeners) : calls[listeners[k].id].err.present}

\* C9: with stacktrace off, the message of an error is the reason phrase of
\* its status and holds nothing of the error's detail; errors that resolve to
\* the same status get the same message and the same body
C9_ProductionMessage ==
  ~opts.stacktrace =>
    /\ \A id \in Ids :
         calls[id].err.present =>
           /\ calls[id].msg = StatusPhrase(calls[id].status)
           /\ ~IsInfix(Detail(calls[id].err), calls[id].msg)
    /\ \A i, j \in Ids :
         (calls[i].err.present /\ calls[j].err.present
            /\ calls[i].status = calls[j].status) => calls[i].msg = calls[j].msg
    /\ \A k, l \in ErrorListeners :
         listeners[k].status = listeners[l].status =>
           listeners[k].body = listeners[l].body

\* two errors that differ in their stack, resolved to one status, both waiting
\* to be written
C9_Witness ==
  /\ ~opts.stacktrace
  /\ \E k, l \in ErrorListeners :
       /\ calls[listeners[k].id].err.stack # calls[listeners[l].id].err.stack
       /\ listeners[k].status = listeners[l].status

\* C10: with stacktrace on, the message of an error is its stack when it has
\* one and its string form otherwise, and the body is built from that message
C10_StacktraceMessage ==
  opts.stacktrace =>
    /\ \A id \in Ids :
         calls[id].err.present => calls[id].msg = Detail(calls[id].err)
    /\ \A k \in ErrorListeners :
         listeners[k].body =
           constructBody(req.accept, listeners[k].status,
                         Detail(calls[listeners[k].id].err))

\* an error without stack: the message is its string form, not the reason phrase
C10_Witness ==
  /\ opts.stacktrace
  /\ \E k \in ErrorListeners :
       /\ calls[listeners[k].id].err.stack = Absent
       /\ calls[listeners[k].id].msg = Str_ErrString
       /\ calls[listeners[k].id].msg # StatusPhrase(listeners[k].status)

\* the body invocation id rendered from its status and message
Rendered(id) == constructBody(req.accept, calls[id].status, calls[id].msg)

\* the write of invocation id ran to its end
Completed(id) == At("write", id) # {} /\ At("throw", id) = {}

\* C11: a completed write for a HEAD request ends the response with no body
\* bytes, whatever the negotiated type, and Content-Length is the byte length
\* of the full rendered body; for another method the response holds exactly
\* the rendered bytes and Content-Length is their count
C11_HeadHasNoBody ==
  \A id \in Ids :
    Completed(id) =>
      /\ res.ended
      /\ res.headers.clen = Len(Rendered(id).bytes)
      /\ res.body = (IF req.method = Str_HEAD THEN <<>> ELSE Rendered(id).bytes)
      /\ req.method # Str_HEAD => res.headers.clen = Len(res.body)

\* a HEAD request that negotiated html, answered with the stack of an error:
\* no body, and the 147 bytes of the 146 characters as Content-Length
C11_Witness ==
  \E id \in Ids :
    /\ Completed(id)
    /\ req.method = Str_HEAD
    /\ req.accept = "html"
    /\ opts.stacktrace
    /\ calls[id].err.present /\ calls[id].err.stack = Str_Stack
    /\ calls[id].status = 500
    /\ res.body = <<>>
    /\ res.headers.clen = 147

\* the html document of a status and a message
HtmlDocument(status, msg) ==
  HTML_HEAD \o escapeHtml(StatusPhrase(status)) \o HTML_MID
  \o replaceDoubleSpaces(replaceNewlines(escapeHtml(msg))) \o HTML_TAIL

\* the media type and the bytes the negotiated kind calls for
ExpectedType(kind) == IF kind = "html" THEN TYPE_HTML ELSE TYPE_TEXT

ExpectedBytes(kind, status, msg) ==
  IF kind = "html" THEN utf8(HtmlDocument(status, msg))
  ELSE utf8(msg \o Str_Newline)

\* C12: the negotiated kind alone selects the representation: html gives
\* text/html; charset=utf-8 and the html document, any other result (text,
\* or none acceptable) gives text/plain; charset=utf-8 and the message with
\* one newline; X-Content-Type-Options is nosniff in both cases
C12_KindSelectsRepresentation ==
  /\ \A k \in 1..Len(listeners) :
       LET c == calls[listeners[k].id]
       IN /\ listeners[k].body.type = ExpectedType(req.accept)
          /\ listeners[k].body.bytes = ExpectedBytes(req.accept, c.status, c.msg)
  /\ \A id \in Ids :
       Completed(id) =>
         /\ res.headers.xcto = "nosniff"
         /\ res.headers.ctype = ExpectedType(req.accept)
         /\ res.headers.clen =
              Len(ExpectedBytes(req.accept, calls[id].status, calls[id].msg))
         /\ req.method # Str_HEAD =>
              res.body = ExpectedBytes(req.accept, calls[id].status, calls[id].msg)

\* the bytes of the html document of status 500 with the stack of the modelled
\* errors as message, as Node renders it
Bytes_StackHtml ==
  <<"<", "!", "d", "o", "c", "t", "y", "p", "e", " ", "h", "t", "m", "l",
   ">", "\n", "<", "h", "t", "m", "l", " ", "l", "a", "n", "g", "=",
   "e", "n", ">", "\n", "<", "h", "e", "a", "d", ">", "\n", "<", "m",
   "e", "t", "a", " ", "c", "h", "a", "r", "s", "e", "t", "=", "u", "t",
   "f", "-", "8", ">", "\n", "<", "t", "i", "t", "l", "e", ">", "I",
   "n", "t", "e", "r", "n", "a", "l", " ", "S", "e", "r", "v", "e", "r",
   " ", "E", "r", "r", "o", "r", "<", "/", "t", "i", "t", "l", "e", ">",
   "\n", "<", "/", "h", "e", "a", "d", ">", "\n", "<", "b", "o", "d",
   "y", ">", "\n", "E", "&", "a", "m", "p", ";", "<", "b", "r", ">",
   " ", "&", "n", "b", "s", "p", ";", "&", "l", "t", ";", "0xC3",
   "0xA9", "&", "g", "t", ";", "\n", "<", "/", "b", "o", "d", "y", ">",
   "\n">>

\* the html answer to a GET with the stack of an error, byte for byte
C12_Witness ==
  \E id \in Ids :
    /\ Completed(id)
    /\ req.accept = "html"
    /\ req.method = Str_GET
    /\ calls[id].msg = Str_Stack
    /\ res.headers.xcto = "nosniff"
    /\ res.headers.ctype = TYPE_HTML
    /\ res.body = Bytes_StackHtml

\* C13: on the error path the status is never below 400: without an explicit
\* status it is res.statusCode when that is >= 400 and 500 when res.statusCode
\* is falsy or below 400; an explicit status below 400 gives 500, not
\* res.statusCode
C13_ErrorStatusAtLeast400 ==
  \A id \in Ids :
    calls[id].err.present =>
      LET e == ExplicitStatus(calls[id].err)
          current == calls[id].statusCode
      IN /\ calls[id].status >= 400
         /\ (e = 0 /\ current >= 400) => calls[id].status = current
         /\ (e = 0 /\ current < 400) => calls[id].status = 500
         /\ (e # 0 /\ e < 400) => calls[id].status = 500
         /\ \A k \in 1..Len(listeners) :
              listeners[k].id = id => listeners[k].status >= 400
         /\ At("write", id) # {} => res.statusCode >= 400

\* an explicit 302 on a response whose status is 503 is written as 500
C13_Witness ==
  \E id \in Ids :
    /\ calls[id].err.present
    /\ ExplicitStatus(calls[id].err) = 302
    /\ calls[id].statusCode = 503
    /\ calls[id].status = 500
    /\ Completed(id)
    /\ res.statusCode = 500

\* an error without status on a response whose status is falsy is written as 500
C13_WitnessFalsy ==
  \E id \in Ids :
    /\ calls[id].err.present
    /\ ExplicitStatus(calls[id].err) = 0
    /\ calls[id].statusCode = 0
    /\ calls[id].status = 500

\* the effects of invocation id on the request, the response and the socket
RECURSIVE Without(_, _)
Without(seq, drop) ==
  IF seq = <<>> THEN <<>>
  ELSE (IF Head(seq) \in drop THEN <<>> ELSE <<Head(seq)>>) \o Without(Tail(seq), drop)

SendEffects(id) == Without(Effects(id), {"enter", "defer", "onerror"})

\* C14: in the finalizer, a request finished at the call is written inside
\* the call, without unpipe or resume; otherwise the consumers are detached,
\* then write is registered, then the request is resumed, and the write comes
\* only after the call has returned
C14_SendOrder ==
  \A id \in Ids :
    ReachedSend(id) =>
      IF calls[id].fin
      THEN SendEffects(id) = <<"write", "return">>
      ELSE SendEffects(id) \in
             {<<"unpipe", "onFinished", "resume", "return">>,
              <<"unpipe", "onFinished", "resume", "return", "write">>,
              <<"unpipe", "onFinished", "resume", "return", "write", "throw">>}

\* a piped request: detached, registered and resumed by the call, written
\* after the finish
C14_Witness ==
  \E id \in Ids :
    /\ ReachedSend(id) /\ ~calls[id].fin
    /\ \E i \in At("unpipe", id) : ~log[i].fin
    /\ SendEffects(id) = <<"unpipe", "onFinished", "resume", "return", "write">>
    /\ ~req.piped
    /\ res.ended

\* a finished request: written inside the call
C14_WitnessFinished ==
  \E id \in Ids :
    /\ ReachedSend(id) /\ calls[id].fin
    /\ SendEffects(id) = <<"write", "return">>
    /\ res.ended

\* C15 as stated: whenever write executes, the headers of the response have
\* not been sent, on the deferred path as well
C15_WriteOnlyBeforeHeaders ==
  \A i \in 1..Len(log) : log[i].ev = "write" => ~log[i].hdr

Writes == { i \in 1..Len(log) : log[i].ev = "write" }

\* C16 as stated: over any sequence of invocations on the pair, write executes
\* at most once in total
C16_WriteAtMostOnce ==
  Cardinality(Writes) <= 1

\* what the code does provide: at most one execution of write gets past the
\* header assignments and ends the response
CompletedWrites == { id \in Ids : Completed(id) }

C16_OneCompletedWrite ==
  Cardinality(CompletedWrites) <= 1

\* the effects of invocation id on the response path
ResponseEffects(id) == Without(Effects(id), {"defer", "onerror"})

\* invocation id found the request finished and the headers not sent: its
\* write ran to its end inside the call, before any run of its callback, and
\* the response carries its status, headers and body
WroteInline(id) ==
  /\ ResponseEffects(id) = <<"enter", "write", "return">>
  /\ \A w \in At("write", id) :
       /\ \A d \in At("defer", id) : d < w
       /\ \A o \in At("onerror", id) : w < o
  /\ res.ended
  /\ res.statusCode = calls[id].status
  /\ res.headers = [xcto |-> "nosniff", ctype |-> Rendered(id).type,
                    clen |-> Len(Rendered(id).bytes)]
  /\ res.body = (IF req.method = Str_HEAD THEN <<>> ELSE Rendered(id).bytes)

\* invocation id had an error and found the headers sent: the socket is
\* destroyed inside the call, nothing is written
Destroyed(id) ==
  /\ ResponseEffects(id) = <<"enter", "destroy", "return">>
  /\ req.socketDestroyed

\* a step of the handler leaves the request, the response and the finish
\* listeners as the error, the request, the response and the stacktrace option
\* determine them: options.onerror has no part in it
FinalizationIgnoresCallback ==
  Len(calls') = Len(calls) + 1 =>
    LET id == Len(calls')
        err == calls'[id].err
        status == resolveStatus(err, res.statusCode)
        msg == resolveMessage(err, status, opts.stacktrace, req)
        body == constructBody(req.accept, status, msg)
        s == send(req, res, listeners, id, status, body)
    IN IF res._header
       THEN /\ req' = [req EXCEPT !.socketDestroyed = @ \/ err.present]
            /\ res' = res
            /\ listeners' = listeners
       ELSE /\ req' = s.req
            /\ res' = s.res
            /\ listeners' = s.listeners

\* C17: scheduling the onerror callback does not change how the response is
\* finalized: with the request finished at the call and the headers not sent,
\* the write completes inside the call and before the callback runs; and the
\* write, or the socket destroy, is the same with and without a callback
C17_CallbackDoesNotAlterFinalization ==
  /\ [](\A id \in Ids :
          /\ (calls[id].fin /\ ~calls[id].hdr) => WroteInline(id)
          /\ (calls[id].hdr /\ calls[id].err.present) => Destroyed(id))
  /\ [][FinalizationIgnoresCallback]_vars

\* an error on a finished request with a callback configured: the response
\* was written in the call and the callback ran afterwards
C17_Witness ==
  \E id \in Ids :
    /\ calls[id].fin /\ ~calls[id].hdr
    /\ calls[id].err.present
    /\ opts.onerror
    /\ Effects(id) = <<"enter", "defer", "write", "return", "onerror">>
    /\ res.ended /\ res.statusCode = calls[id].status

\* the same written response with no callback configured
C17_WitnessNoCallback ==
  \E id \in Ids :
    /\ calls[id].fin /\ ~calls[id].hdr
    /\ calls[id].err.present
    /\ ~opts.onerror
    /\ Effects(id) = <<"enter", "write", "return">>
    /\ res.ended /\ res.statusCode = calls[id].status

====
